---- MODULE Spec2Model ----
(***************************************************************************)
(* Model of the biometric attendance download cycle of                     *)
(* models/biometric_device_details.py: the device's punch log, the user    *)
(* directory, and the three tables the download writes (hr.employee,       *)
(* hr.attendance, zk.machine.attendance).                                  *)
(*                                                                         *)
(* The tables are a plain store: create appends a record, write updates    *)
(* one, search filters. Any create or write may raise (the ORM's           *)
(* constraints and the database are outside this repository). The method   *)
(* has no handler and never commits, so an exception ends the run and the  *)
(* transaction's rollback undoes the writes of the run.                    *)
(***************************************************************************)
EXTENDS Integers, Sequences, FiniteSets

\* ---------------------------------------------------------------- bounds
MaxUsers == 2
MaxTick == 2
MaxPunches == 3
TimeStep == 180

\* ------------------------------------------------------- program constants
\* time_diff.total_seconds() <= 180
BridgeSeconds == 180
\* a check_out that is not set (Odoo's False)
Null == -1

\* ---------------------------------------------------------- input domains
\* device user ids
Users == 1..MaxUsers
\* the wall-clock readings of the device, in seconds
LocalTimes == {k * TimeStep : k \in 0..MaxTick}
\* punch codes the device reports: 0 check-in, 1 check-out, 4 overtime-in,
\* 5 overtime-out, 2 break-out (one of the codes that is none of these)
Codes == {0, 1, 2, 4, 5}
\* the acting user's timezone: unset (the "GMT" fallback) or a zone west of
\* Greenwich whose clocks jump forward by GapLen at wall time GapStart
Zones == {"GMT", "DST"}
GapStart == TimeStep
GapLen == TimeStep
West == 2 * TimeStep

VARIABLES
    tz,             \* self.env.user.partner_id.tz or "GMT"
    user,           \* conn.get_users(): the enrolled user ids
    attendance,     \* conn.get_attendance(): the device's punch log
    hr_employee,    \* hr.employee: set of [id, device_id_num]
    hr_attendance,  \* hr.attendance: sequence of intervals, id = index
    zk_attendance,  \* zk.machine.attendance: sequence of raw punch records
    pc,             \* "idle" or "loop" (inside the per-punch for loop)
    i,              \* index of the punch the loop is at
    conn,           \* the run's device session: "none", "open", "closed"
    enabled,        \* whether the device accepts local operation
    result,         \* how the last run ended: "none", "True" (returned), "Error"
                    \* (an exception in the loop), "NoConnection" and
                    \* "NoAttendance" (the two UserErrors)
    synced,         \* the last run returned True and the punch log is unchanged since
    saved,          \* the tables when the run started (what a rollback restores)
    info,           \* the device the run is for (its address_id)
    logs,           \* with several devices: the punch log of each
    cron,           \* cron_download: where its loop over the devices is
    runs,           \* with concurrent runs: each run's position and get_user_id
    context,        \* self.env.context.get("no_overtime_creation")
    overtime        \* hr.attendance.overtime: number of records, now and at run start

\* what the download of one device, run alone, leaves alone
aux == <<info, logs, cron, runs, context, overtime>>

vars == <<tz, user, attendance, hr_employee, hr_attendance, zk_attendance,
          pc, i, conn, enabled, result, synced, saved, aux>>

\* ------------------------------------------------------------ normalizer
\* local_tz.localize(atten_time, is_dst=None) raises for a wall time that
\* does not exist in the zone
LocalizeRaises(t, z) == z = "DST" /\ t >= GapStart /\ t < GapStart + GapLen

\* localize, astimezone(pytz.utc), strftime, strptime: the naive UTC time
ToUtc(t, z) ==
    IF z = "GMT" THEN t
    ELSE IF t < GapStart THEN t + West
    ELSE t + West - GapLen

\* ------------------------------------------------------------------ store
\* self.env["hr.employee"].search([("device_id_num", "=", each.user_id)])
SearchEmployee(E, uid) == {e \in E : e.device_id_num = uid}

\* zk_attendance.search([device_id_num = user_id, punching_time = atten_time])
SearchDuplicate(Z, uid, t) ==
    {k \in 1..Len(Z) : Z[k].device_id_num = uid /\ Z[k].punching_time = t}

\* hr_attendance.search([employee_id = emp], order="check_in desc", limit=1):
\* the ids the search may return (one of the intervals with the latest check_in)
SearchLast(A, emp) ==
    {k \in 1..Len(A) :
        /\ A[k].employee_id = emp
        /\ \A j \in 1..Len(A) :
              A[j].employee_id = emp => A[j].check_in <= A[k].check_in}

\* str(each.punch), str(each.status): the decimal text of a small code
Str(n) ==
    CASE n = 0 -> "0" [] n = 1 -> "1" [] n = 2 -> "2" [] n = 3 -> "3"
      [] n = 4 -> "4" [] n = 5 -> "5" [] n = 6 -> "6" [] n = 7 -> "7"
      [] n = 8 -> "8" [] n = 9 -> "9" [] OTHER -> "?"

\* ------------------------------------------------- the writes of one punch
\* last_attendance.write({"check_out": atten_time})
OpWrite(k, t) ==
    [op |-> "write", id |-> k,
     vals |-> [check_out |-> t]]

\* hr_attendance.create({"employee_id": .., "check_in": .., ["check_out": ..]})
OpInterval(emp, ci, co) ==
    [op |-> "hr_attendance", id |-> 0,
     vals |-> [employee_id |-> emp, check_in |-> ci, check_out |-> co]]

\* zk_attendance.create({...}): the raw punch, with the device's own codes
OpRaw(emp, each, t, addr) ==
    [op |-> "zk_attendance", id |-> 0,
     vals |-> [employee_id |-> emp, device_id_num |-> each.user_id,
               attendance_type |-> Str(each.status),
               punch_type |-> Str(each.punch),
               punching_time |-> t, address_id |-> addr]]

\* self.env["hr.employee"].create({"device_id_num": each.user_id, "name": ..})
OpEmployee(id, uid) ==
    [op |-> "hr_employee", id |-> id,
     vals |-> [device_id_num |-> uid]]

\* the id a newly created employee gets (employees are never deleted here)
NewEmployeeId(E) == Cardinality(E) + 1

\* OpenBranch whose check-in opens a new interval without closing the last
OpenBranchStacks(emp, each, t, last, addr) ==
    IF each.punch = 0
    THEN <<OpRaw(emp, each, t, addr), OpInterval(emp, t, Null)>>
    ELSE IF each.punch = 1
    THEN <<OpWrite(last, t), OpRaw(emp, each, t, addr)>>
    ELSE <<>>

\* The employee's last interval has no check_out (lines 224-268)
OpenBranch(emp, each, t, last, addr) ==
    IF each.punch = 0
    THEN <<OpWrite(last, t), OpRaw(emp, each, t, addr), OpInterval(emp, t, Null)>>
    ELSE IF each.punch = 1
    THEN <<OpWrite(last, t), OpRaw(emp, each, t, addr)>>
    ELSE <<>>

\* ClosedBranch with the bridge test written "<"
ClosedBranchStrict(emp, each, t, co, addr) ==
    IF each.punch = 0
    THEN <<OpInterval(emp, t, Null), OpRaw(emp, each, t, addr)>>
    ELSE IF each.punch = 1
    THEN << IF t - co < BridgeSeconds
            THEN OpInterval(emp, co, t)
            ELSE OpInterval(emp, t, Null),
            OpRaw(emp, each, t, addr) >>
    ELSE <<>>

\* The employee's last interval is a complete pair (lines 269-329)
ClosedBranch(emp, each, t, co, addr) ==
    IF each.punch = 0
    THEN <<OpInterval(emp, t, Null), OpRaw(emp, each, t, addr)>>
    ELSE IF each.punch = 1
    THEN << IF t - co <= BridgeSeconds
            THEN OpInterval(emp, co, t)
            ELSE OpInterval(emp, t, Null),
            OpRaw(emp, each, t, addr) >>
    ELSE <<>>

\* NoIntervalBranch without the raw punch record
NoIntervalBranchUnlogged(emp, each, t, addr) ==
    <<OpInterval(emp, t, Null)>>

\* NoIntervalBranch that pairs a check-out with itself: a closed interval
NoIntervalBranchPaired(emp, each, t, addr) ==
    <<OpInterval(emp, t, IF each.punch \in {1, 5} THEN t ELSE Null),
      OpRaw(emp, each, t, addr)>>

\* No previous attendance, treat as check-in (lines 330-347)
NoIntervalBranch(emp, each, t, addr) ==
    <<OpInterval(emp, t, Null), OpRaw(emp, each, t, addr)>>

\* NewEmployeeBranch that creates the employee without its device id
NewEmployeeBranchUnkeyed(E, each, t, addr) ==
    <<OpEmployee(NewEmployeeId(E), 0),
      OpInterval(NewEmployeeId(E), t, Null),
      OpRaw(NewEmployeeId(E), each, t, addr)>>

\* Create a new employee record if not found (lines 348-371)
NewEmployeeBranch(E, each, t, addr) ==
    <<OpEmployee(NewEmployeeId(E), each.user_id),
      OpInterval(NewEmployeeId(E), t, Null),
      OpRaw(NewEmployeeId(E), each, t, addr)>>

\* PunchOps without the duplicate search
PunchOpsUnfiltered(E, A, Z, each, t, last, addr) ==
    LET get_user_id == SearchEmployee(E, each.user_id) IN
    IF get_user_id # {}
    THEN LET emp == (CHOOSE e \in get_user_id : TRUE).id IN
         IF last # 0
         THEN IF A[last].check_out = Null
              THEN OpenBranch(emp, each, t, last, addr)
              ELSE ClosedBranch(emp, each, t, A[last].check_out, addr)
         ELSE NoIntervalBranch(emp, each, t, addr)
    ELSE NewEmployeeBranch(E, each, t, addr)

\* The creates and writes the body of "if uid.user_id == each.user_id" makes
\* for punch each at UTC time t, in order; last is the id search(limit=1)
\* returned for the employee, 0 when it returned nothing (lines 207-371).
PunchOps(E, A, Z, each, t, last, addr) ==
    LET get_user_id == SearchEmployee(E, each.user_id) IN
    IF get_user_id # {}
    THEN IF SearchDuplicate(Z, each.user_id, t) # {}
         THEN <<>>
         ELSE LET emp == (CHOOSE e \in get_user_id : TRUE).id IN
              IF last # 0
              THEN IF A[last].check_out = Null
                   THEN OpenBranch(emp, each, t, last, addr)
                   ELSE ClosedBranch(emp, each, t, A[last].check_out, addr)
              ELSE NoIntervalBranch(emp, each, t, addr)
    ELSE NewEmployeeBranch(E, each, t, addr)

\* get_user_id.id on a recordset of several employees raises (expected singleton)
SingletonRaises(E, Z, each, t) ==
    /\ Cardinality(SearchEmployee(E, each.user_id)) > 1
    /\ SearchDuplicate(Z, each.user_id, t) = {}

\* what hr_attendance.search(..., limit=1) may return for the punch's employee
LastChoices(E, A, each) ==
    LET get_user_id == SearchEmployee(E, each.user_id) IN
    IF Cardinality(get_user_id) # 1 THEN {0}
    ELSE LET found == SearchLast(A, (CHOOSE e \in get_user_id : TRUE).id) IN
         IF found = {} THEN {0} ELSE found

\* one create or write applied to the tables db = [E, A, Z]
ApplyOp(db, o) ==
    CASE o.op = "write" ->
           [db EXCEPT !.A[o.id].check_out = o.vals.check_out]
      [] o.op = "hr_attendance" ->
           [db EXCEPT !.A = Append(@, o.vals)]
      [] o.op = "zk_attendance" ->
           [db EXCEPT !.Z = Append(@, o.vals)]
      [] o.op = "hr_employee" ->
           [db EXCEPT !.E = @ \cup {[id |-> o.id,
                                     device_id_num |-> o.vals.device_id_num]}]

\* the first n of ops applied in order
RECURSIVE Exec(_, _, _)
Exec(db, ops, n) ==
    IF n = 0 THEN db ELSE ApplyOp(Exec(db, ops, n - 1), ops[n])

\* One iteration of "for each in attendance" (lines 195-371): every way it can
\* end. raised = FALSE: the iteration completed, db is the tables after it.
\* raised = TRUE: an exception left the method (it has no handler): localize
\* raised, get_user_id.id raised, or the k-th of the iteration's creates and
\* writes raised.
Outcomes(E, A, Z, each, z, U, addr) ==
    LET db == [E |-> E, A |-> A, Z |-> Z]
        t  == ToUtc(each.timestamp, z)
    IN
    IF LocalizeRaises(each.timestamp, z)
    THEN {[db |-> db, raised |-> TRUE]}
    ELSE IF each.user_id \notin U
    THEN {[db |-> db, raised |-> FALSE]}
    ELSE IF SingletonRaises(E, Z, each, t)
    THEN {[db |-> db, raised |-> TRUE]}
    ELSE UNION {
           LET ops == PunchOps(E, A, Z, each, t, last, addr) IN
           {[db |-> Exec(db, ops, Len(ops)), raised |-> FALSE]}
             \cup {[db |-> db, raised |-> TRUE] : k \in 1..Len(ops)}
           : last \in LastChoices(E, A, each) }

\* ------------------------------------------------------------------ actions
\* info.address_id.id of the one configured device
address_id == 1

Punches ==
    [user_id : Users, timestamp : LocalTimes, punch : Codes, status : {1}]

NoTables == [E |-> {}, A |-> <<>>, Z |-> <<>>]

\* one device, no scheduled job, one run at a time, no overtime records
InitAux ==
    /\ info = address_id
    /\ logs = <<>>
    /\ cron = [pc |-> "idle", k |-> 1, invoked |-> {}, start |-> NoTables]
    /\ runs = <<>>
    /\ context = FALSE
    /\ overtime = [n |-> 0, at_start |-> 0]

Init ==
    /\ tz \in Zones
    /\ user \in {Users, Users \ {MaxUsers}}
    /\ attendance = <<>>
    /\ hr_employee \in {{}, {[id |-> 1, device_id_num |-> 1]}}
    /\ hr_attendance = <<>>
    /\ zk_attendance = <<>>
    /\ pc = "idle"
    /\ i = 1
    /\ conn = "none"
    /\ enabled = TRUE
    /\ result = "none"
    /\ synced = FALSE
    /\ saved = NoTables
    /\ InitAux

\* somebody punches at the terminal between two downloads
DevicePunch ==
    /\ pc = "idle"
    /\ Len(attendance) < MaxPunches
    /\ \E p \in Punches : attendance' = Append(attendance, p)
    /\ synced' = FALSE
    /\ UNCHANGED <<tz, user, hr_employee, hr_attendance, zk_attendance,
                   pc, i, conn, enabled, result, saved, aux>>

\* DownloadBody that takes an empty punch log for a completed run
DownloadEmptyOk(fetched, start) ==
    /\ pc = "idle"
    /\ \E connected \in BOOLEAN, tzConnected \in BOOLEAN :
         IF ~tzConnected
         THEN
              /\ conn' = IF connected THEN "open" ELSE "none"
              /\ result' = "NoConnection"
              /\ UNCHANGED <<pc, enabled, saved>>
         ELSE IF ~connected
         THEN
              /\ conn' = "none"
              /\ result' = "NoConnection"
              /\ UNCHANGED <<pc, enabled, saved>>
         ELSE IF fetched = <<>>
         THEN /\ conn' = "open"
              /\ enabled' = FALSE
              /\ result' = "True"
              /\ UNCHANGED <<pc, saved>>
         ELSE /\ conn' = "open"
              /\ enabled' = FALSE
              /\ result' = "none"
              /\ pc' = "loop"
              /\ saved' = start
    /\ i' = 1
    /\ attendance' = fetched
    /\ synced' = (synced /\ pc' = "loop")
    /\ hr_employee' = IF pc' = "loop" THEN hr_employee ELSE start.E
    /\ hr_attendance' = IF pc' = "loop" THEN hr_attendance ELSE start.A
    /\ zk_attendance' = IF pc' = "loop" THEN zk_attendance ELSE start.Z
    /\ UNCHANGED <<tz, user>>

\* action_download_attendance up to the loop (lines 163-194, 374-384):
\* connect, action_set_timezone (its own connection), disable the device,
\* fetch users and punches; fetched is what conn.get_attendance() returns,
\* start the tables as they were when the transaction began: a UserError
\* rolls back to them.
DownloadBody(fetched, start) ==
    /\ pc = "idle"
    /\ \E connected \in BOOLEAN, tzConnected \in BOOLEAN :
         IF ~tzConnected
         THEN \* action_set_timezone raises UserError (line 109)
              /\ conn' = IF connected THEN "open" ELSE "none"
              /\ result' = "NoConnection"
              /\ UNCHANGED <<pc, enabled, saved>>
         ELSE IF ~connected
         THEN \* line 379
              /\ conn' = "none"
              /\ result' = "NoConnection"
              /\ UNCHANGED <<pc, enabled, saved>>
         ELSE IF fetched = <<>>
         THEN \* line 375
              /\ conn' = "open"
              /\ enabled' = FALSE
              /\ result' = "NoAttendance"
              /\ UNCHANGED <<pc, saved>>
         ELSE /\ conn' = "open"
              /\ enabled' = FALSE
              /\ result' = "none"
              /\ pc' = "loop"
              /\ saved' = start
    /\ i' = 1
    /\ attendance' = fetched
    /\ synced' = (synced /\ pc' = "loop")
    /\ hr_employee' = IF pc' = "loop" THEN hr_employee ELSE start.E
    /\ hr_attendance' = IF pc' = "loop" THEN hr_attendance ELSE start.A
    /\ zk_attendance' = IF pc' = "loop" THEN zk_attendance ELSE start.Z
    /\ UNCHANGED <<tz, user>>

\* the three tables as they are
Tables == [E |-> hr_employee, A |-> hr_attendance, Z |-> zk_attendance]

\* the download of the one device, whose log is attendance itself, in a
\* transaction of its own
Download == DownloadBody(attendance, Tables) /\ UNCHANGED aux

\* one iteration of the loop over the fetched punches. The method never
\* commits: when an exception leaves it, the transaction it ran in is rolled
\* back and the tables are again what they were when the run started.
PunchBody(addr) ==
    /\ pc = "loop"
    /\ i <= Len(attendance)
    /\ \E o \in Outcomes(hr_employee, hr_attendance, zk_attendance,
                         attendance[i], tz, user, addr) :
         IF o.raised
         THEN /\ hr_employee' = saved.E
              /\ hr_attendance' = saved.A
              /\ zk_attendance' = saved.Z
              /\ pc' = "idle"
              /\ result' = "Error"
              /\ synced' = FALSE
              /\ i' = 1
              /\ saved' = NoTables
         ELSE /\ hr_employee' = o.db.E
              /\ hr_attendance' = o.db.A
              /\ zk_attendance' = o.db.Z
              /\ i' = i + 1
              /\ UNCHANGED <<pc, result, synced, saved>>
    /\ UNCHANGED <<tz, user, attendance, conn, enabled>>

Punch == PunchBody(address_id) /\ UNCHANGED aux

\* after the loop: "conn.disconnect" (the method is named, not called) and
\* return True (lines 372-373)
ReturnBody ==
    /\ pc = "loop"
    /\ i > Len(attendance)
    /\ pc' = "idle"
    /\ result' = "True"
    /\ synced' = TRUE
    /\ i' = 1
    /\ saved' = NoTables
    /\ UNCHANGED <<tz, user, attendance, hr_employee, hr_attendance,
                   zk_attendance, conn, enabled>>

Return == ReturnBody /\ UNCHANGED aux

Next == DevicePunch \/ Download \/ Punch \/ Return

Spec == Init /\ [][Next]_vars

\* ------------------------------------------------------------------ claims
\* the punch the loop is about to process
InLoop == pc = "loop" /\ i <= Len(attendance)

\* the punch has a canonical timestamp and its user is in the directory
Accepted(p) == ~LocalizeRaises(p.timestamp, tz) /\ p.user_id \in user

\* a raw punch record with the punch's user id and canonical timestamp exists
IsDuplicate(p) ==
    /\ ~LocalizeRaises(p.timestamp, tz)
    /\ SearchDuplicate(zk_attendance, p.user_id, ToUtc(p.timestamp, tz)) # {}

IntervalsOf(emp) ==
    {k \in 1..Len(hr_attendance) : hr_attendance[k].employee_id = emp}

OpenIntervalsOf(emp) ==
    {k \in IntervalsOf(emp) : hr_attendance[k].check_out = Null}

\* two intervals share more than an end point (an open interval has no end)
Overlap(a, b) ==
    /\ (b.check_out = Null \/ a.check_in < b.check_out)
    /\ (a.check_out = Null \/ b.check_in < a.check_out)

\* C1: after every processed punch, every employee has at most one attendance
\* interval whose check_out is absent.
C1_AtMostOneOpenInterval ==
    \A e \in hr_employee : Cardinality(OpenIntervalsOf(e.id)) <= 1

\* C2: for every employee the intervals are pairwise non-overlapping and every
\* interval that has a check_out has check_out >= check_in.
C2_IntervalsWellFormed ==
    \A e \in hr_employee :
        \A k \in IntervalsOf(e.id) :
            /\ hr_attendance[k].check_out # Null =>
                   hr_attendance[k].check_out >= hr_attendance[k].check_in
            /\ \A j \in IntervalsOf(e.id) :
                   j # k => ~Overlap(hr_attendance[j], hr_attendance[k])

\* C3: a run that follows a completed run over the same punch list and user
\* directory creates no raw punch record, no attendance interval (and no
\* employee), at any of its punches.
C3_SecondRunCreatesNothing ==
    [][(synced /\ InLoop) =>
          /\ Len(zk_attendance') = Len(zk_attendance)
          /\ Len(hr_attendance') = Len(hr_attendance)
          /\ hr_employee' = hr_employee]_vars

\* a second run over an unchanged, fully logged list has gone through it
C3_Witness ==
    /\ synced
    /\ pc = "loop"
    /\ i > Len(attendance)
    /\ Len(attendance) = Len(zk_attendance)
    /\ Len(attendance) >= 2

\* C4: processing a punch whose (user id, canonical timestamp) already has a
\* raw punch record changes none of the three tables: no raw record, no
\* interval created or closed, no employee.
C4_DuplicateChangesNothing ==
    [][(InLoop /\ IsDuplicate(attendance[i])) =>
          /\ UNCHANGED <<hr_employee, hr_attendance, zk_attendance>>
          /\ pc' = "loop"]_vars

\* the loop has just passed a punch that was already logged when the run began
C4_Witness ==
    /\ pc = "loop"
    /\ i > 1
    /\ attendance[i - 1].user_id \in user
    /\ ~LocalizeRaises(attendance[i - 1].timestamp, tz)
    /\ SearchDuplicate(saved.Z, attendance[i - 1].user_id,
                       ToUtc(attendance[i - 1].timestamp, tz)) # {}

\* C5: when a run that opened a device session and disabled the device has
\* returned or raised (normal completion, zero punches, an exception in the
\* loop), the device is enabled again and the session is disconnected.
C5_DeviceReleasedOnExit ==
    (pc = "idle" /\ result \in {"True", "NoAttendance", "Error"}) =>
        (enabled /\ conn = "closed")

\* C6: a create or write that fails for one punch does not end the run: the
\* loop goes on to the punches after it.
C6_FailureDoesNotAbort ==
    [][(InLoop /\ i < Len(attendance)
          /\ ~LocalizeRaises(attendance[i].timestamp, tz)) =>
          (pc' = "loop" /\ i' = i + 1)]_vars

\* C7: every punch that is not a duplicate is appended to the raw punch log
\* exactly once, with its original punch code (stated for the punches of
\* enrolled users whose iteration completes).
C7_NonDuplicateIsLogged ==
    [][(InLoop /\ Accepted(attendance[i]) /\ ~IsDuplicate(attendance[i])
          /\ pc' = "loop") =>
          /\ Len(zk_attendance') = Len(zk_attendance) + 1
          /\ SubSeq(zk_attendance', 1, Len(zk_attendance)) = zk_attendance
          /\ LET r == zk_attendance'[Len(zk_attendance')] IN
                /\ r.device_id_num = attendance[i].user_id
                /\ r.punching_time = ToUtc(attendance[i].timestamp, tz)
                /\ r.punch_type = Str(attendance[i].punch)]_vars

\* the tables a completed iteration for punch p may leave, without the stored
\* punch code
EffectOf(p) ==
    {[E |-> o.db.E, A |-> o.db.A,
      Z |-> [k \in 1..Len(o.db.Z) |-> [o.db.Z[k] EXCEPT !.punch_type = ""]]] :
       o \in {x \in Outcomes(hr_employee, hr_attendance, zk_attendance,
                             p, tz, user, address_id) : ~x.raised}}

\* C8: a punch with code 4 has the interval and raw-log effect of the same
\* punch with code 0, and a punch with code 5 that of code 1.
C8_OvertimeCodesNormalized ==
    InLoop =>
        /\ attendance[i].punch = 4 =>
              EffectOf(attendance[i]) = EffectOf([attendance[i] EXCEPT !.punch = 0])
        /\ attendance[i].punch = 5 =>
              EffectOf(attendance[i]) = EffectOf([attendance[i] EXCEPT !.punch = 1])

\* C9: a punch whose code is none of 0, 1, 4, 5 creates no interval and sets
\* no check_out.
C9_OtherCodeLeavesIntervals ==
    [][(InLoop /\ attendance[i].punch \notin {0, 1, 4, 5} /\ pc' = "loop") =>
          hr_attendance' = hr_attendance]_vars

\* the employee of the punch's user id, when there is exactly one
EmployeeIdOf(p) == (CHOOSE e \in SearchEmployee(hr_employee, p.user_id) : TRUE).id

\* the employee's most recent interval (by check_in) is closed
LastIsClosed(p) ==
    /\ Cardinality(SearchEmployee(hr_employee, p.user_id)) = 1
    /\ SearchLast(hr_attendance, EmployeeIdOf(p)) # {}
    /\ \A k \in SearchLast(hr_attendance, EmployeeIdOf(p)) :
           hr_attendance[k].check_out # Null

MaxDeepTick == 3
MaxDeepPunches == 4

DeepPunches ==
    [user_id : {1}, timestamp : {k * TimeStep : k \in 0..MaxDeepTick},
     punch : {0, 1}, status : {1}]

InitDeep ==
    /\ tz \in Zones
    /\ user = {1}
    /\ attendance = <<>>
    /\ hr_employee = {}
    /\ hr_attendance = <<>>
    /\ zk_attendance = <<>>
    /\ pc = "idle"
    /\ i = 1
    /\ conn = "none"
    /\ enabled = TRUE
    /\ result = "none"
    /\ synced = FALSE
    /\ saved = NoTables
    /\ InitAux

DevicePunchDeep ==
    /\ pc = "idle"
    /\ Len(attendance) < MaxDeepPunches
    /\ \E p \in DeepPunches : attendance' = Append(attendance, p)
    /\ synced' = FALSE
    /\ UNCHANGED <<tz, user, hr_employee, hr_attendance, zk_attendance,
                   pc, i, conn, enabled, result, saved, aux>>

NextDeep == DevicePunchDeep \/ Download \/ Punch \/ Return

SpecDeep == InitDeep /\ [][NextDeep]_vars

\* the employee's most recent interval (by check_in) is open
LastIsOpen(p) ==
    /\ Cardinality(SearchEmployee(hr_employee, p.user_id)) = 1
    /\ SearchLast(hr_attendance, EmployeeIdOf(p)) # {}
    /\ \A k \in SearchLast(hr_attendance, EmployeeIdOf(p)) :
           hr_attendance[k].check_out = Null

\* the punch is a non-duplicate punch of an enrolled user with code c, and
\* its iteration completes
Reconciles(c) ==
    /\ InLoop
    /\ Accepted(attendance[i])
    /\ ~IsDuplicate(attendance[i])
    /\ attendance[i].punch = c
    /\ pc' = "loop"

\* C11: when the employee's most recent interval is open with check_in = T1
\* and a non-duplicate check-in punch (code 0) arrives at T2 > T1, the interval
\* is closed with check_out = T2, a new open interval with check_in = T2 is
\* created, and the employee ends with that interval as the only open one.
C11_OpenIntervalCheckIn ==
    [][(Reconciles(0) /\ LastIsOpen(attendance[i])
          /\ \A k \in SearchLast(hr_attendance, EmployeeIdOf(attendance[i])) :
                ToUtc(attendance[i].timestamp, tz) > hr_attendance[k].check_in) =>
          LET t   == ToUtc(attendance[i].timestamp, tz)
              emp == EmployeeIdOf(attendance[i])
          IN /\ \E k \in SearchLast(hr_attendance, emp) :
                   hr_attendance' =
                       Append([hr_attendance EXCEPT ![k].check_out = t],
                              [employee_id |-> emp, check_in |-> t,
                               check_out |-> Null])
             /\ {k \in 1..Len(hr_attendance') :
                    /\ hr_attendance'[k].employee_id = emp
                    /\ hr_attendance'[k].check_out = Null}
                  = {Len(hr_attendance')}]_vars

\* the transition of the open-interval check-in rule alone: the interval is
\* closed at T2 and a new open interval with check_in = T2 is created, the
\* other intervals unchanged (what lines 224-250 do whatever the other
\* intervals of the employee are)
OpenCheckInClosesAndReopens ==
    [][(Reconciles(0) /\ LastIsOpen(attendance[i])
          /\ \A k \in SearchLast(hr_attendance, EmployeeIdOf(attendance[i])) :
                ToUtc(attendance[i].timestamp, tz) > hr_attendance[k].check_in) =>
          LET t   == ToUtc(attendance[i].timestamp, tz)
              emp == EmployeeIdOf(attendance[i])
          IN \E k \in SearchLast(hr_attendance, emp) :
                hr_attendance' =
                    Append([hr_attendance EXCEPT ![k].check_out = t],
                           [employee_id |-> emp, check_in |-> t,
                            check_out |-> Null])]_vars

\* C12: when the employee's most recent interval is open and a non-duplicate
\* check-out punch (code 1) arrives at t, that interval's check_out is set to
\* t, no interval is created, and afterwards the employee has no open interval.
C12_OpenIntervalCheckOut ==
    [][(Reconciles(1) /\ LastIsOpen(attendance[i])) =>
          LET t   == ToUtc(attendance[i].timestamp, tz)
              emp == EmployeeIdOf(attendance[i])
          IN /\ \E k \in SearchLast(hr_attendance, emp) :
                   hr_attendance' = [hr_attendance EXCEPT ![k].check_out = t]
             /\ {k \in 1..Len(hr_attendance') :
                    /\ hr_attendance'[k].employee_id = emp
                    /\ hr_attendance'[k].check_out = Null} = {}]_vars

\* the transition of the open-interval check-out rule alone (lines 251-268):
\* the most recent interval gets check_out = t and nothing else changes
OpenCheckOutCloses ==
    [][(Reconciles(1) /\ LastIsOpen(attendance[i])) =>
          \E k \in SearchLast(hr_attendance, EmployeeIdOf(attendance[i])) :
              hr_attendance' =
                  [hr_attendance EXCEPT
                      ![k].check_out = ToUtc(attendance[i].timestamp, tz)]]_vars

\* C13: when an employee has no attendance interval at all, a non-duplicate
\* punch at t with intent check-in or check-out (codes 0, 1, 4, 5) creates
\* exactly one interval, open, with check_in = t, and one raw punch record.
C13_NoIntervalRule ==
    [][(InLoop /\ Accepted(attendance[i]) /\ ~IsDuplicate(attendance[i])
          /\ attendance[i].punch \in {0, 1, 4, 5}
          /\ Cardinality(SearchEmployee(hr_employee, attendance[i].user_id)) = 1
          /\ IntervalsOf(EmployeeIdOf(attendance[i])) = {}
          /\ pc' = "loop") =>
          LET t   == ToUtc(attendance[i].timestamp, tz)
              emp == EmployeeIdOf(attendance[i])
          IN /\ hr_attendance' =
                    Append(hr_attendance,
                           [employee_id |-> emp, check_in |-> t, check_out |-> Null])
             /\ Len(zk_attendance') = Len(zk_attendance) + 1
             /\ SubSeq(zk_attendance', 1, Len(zk_attendance)) = zk_attendance
             /\ zk_attendance'[Len(zk_attendance')].device_id_num
                    = attendance[i].user_id
             /\ zk_attendance'[Len(zk_attendance')].punching_time = t
             /\ hr_employee' = hr_employee]_vars

\* the first punch of a run was a check-out of an employee who existed without
\* any interval, and it left one open interval and one raw record
C13_Witness ==
    /\ pc = "loop"
    /\ i = 2
    /\ attendance[1].punch = 1
    /\ saved.A = <<>>
    /\ SearchEmployee(saved.E, attendance[1].user_id) # {}
    /\ Len(hr_attendance) = 1
    /\ hr_attendance[1].check_out = Null
    /\ Len(zk_attendance) = 1

\* C14: within one run, the punches of an employee are reconciled in ascending
\* timestamp order whatever the order the device returns them in: of the raw
\* records this run has logged for one user, none follows one with a later
\* canonical timestamp.
C14_AscendingWithinRun ==
    pc = "loop" =>
        \A a, b \in (Len(saved.Z) + 1)..Len(zk_attendance) :
            (a < b /\ zk_attendance[a].device_id_num = zk_attendance[b].device_id_num)
                => zk_attendance[a].punching_time <= zk_attendance[b].punching_time

\* C16: when one batch holds two or more punches of a device user id that has
\* no employee, exactly one employee with that device id is created, and the
\* later punches resolve to it: every raw record the run logs for the id
\* carries that employee.
C16_OneEmployeePerNewUser ==
    pc = "loop" =>
        \A uid \in user :
            ({e \in saved.E : e.device_id_num = uid} = {}
               /\ \E j, k \in 1..(i - 1) :
                      /\ j < k
                      /\ attendance[j].user_id = uid
                      /\ attendance[k].user_id = uid) =>
                /\ Cardinality({e \in hr_employee : e.device_id_num = uid}) = 1
                /\ \A n \in (Len(saved.Z) + 1)..Len(zk_attendance) :
                       zk_attendance[n].device_id_num = uid =>
                           \E e \in hr_employee :
                               /\ e.device_id_num = uid
                               /\ e.id = zk_attendance[n].employee_id

\* two punches of one user without employee have been processed and logged
C16_Witness ==
    /\ pc = "loop"
    /\ i = 3
    /\ attendance[1].user_id = attendance[2].user_id
    /\ attendance[1].user_id \in user
    /\ {e \in saved.E : e.device_id_num = attendance[1].user_id} = {}
    /\ Len(zk_attendance) = Len(saved.Z) + 2

\* C18: when the device connection fails or the device returns zero punches,
\* the run ends with a user-facing error, not with success, and no employee,
\* interval or raw punch record is created or changed.
C18_NoDataRaises ==
    [][(pc = "idle" /\ attendance' = attendance
          /\ (conn' = "none" \/ attendance = <<>>)) =>
          /\ pc' = "idle"
          /\ result' \in {"NoConnection", "NoAttendance"}
          /\ UNCHANGED <<hr_employee, hr_attendance, zk_attendance>>]_vars

\* a run over an empty punch log ended with the error of line 375
C18_EmptyLogWitness ==
    /\ pc = "idle"
    /\ attendance = <<>>
    /\ result = "NoAttendance"
    /\ conn = "open"

\* ---------------------------------------- several devices and cron_download
\* Every device keeps a punch log of its own; a download is started for one
\* device from its form, or for each device in turn by the scheduled job.
\* One user, one zone: the devices and the job are what varies here.
MaxDevices == 2
MaxDevicePunches == 2

\* biometric.device.details records, by address_id
Devices == 1..MaxDevices

DeviceLogPunches ==
    [user_id : {1}, timestamp : {0, TimeStep}, punch : {0, 1}, status : {1}]

InitDevices ==
    /\ tz = "GMT"
    /\ user = {1}
    /\ attendance = <<>>
    /\ hr_employee = {}
    /\ hr_attendance = <<>>
    /\ zk_attendance = <<>>
    /\ pc = "idle"
    /\ i = 1
    /\ conn = "none"
    /\ enabled = TRUE
    /\ result = "none"
    /\ synced = FALSE
    /\ saved = NoTables
    /\ info = 1
    /\ logs = [d \in Devices |-> <<>>]
    /\ cron = [pc |-> "idle", k |-> 1, invoked |-> {}, start |-> NoTables]
    /\ runs = <<>>
    /\ context = FALSE
    /\ overtime = [n |-> 0, at_start |-> 0]

\* somebody punches at one of the terminals
DevicePunchAt ==
    /\ pc = "idle"
    /\ \E d \in Devices, p \in DeviceLogPunches :
          /\ Len(logs[d]) < MaxDevicePunches
          /\ logs' = [logs EXCEPT ![d] = Append(@, p)]
    /\ synced' = FALSE
    /\ UNCHANGED <<tz, user, attendance, hr_employee, hr_attendance,
                   zk_attendance, pc, i, conn, enabled, result, saved,
                   info, cron, runs, context, overtime>>

\* the download button of one device's form
ButtonDownload ==
    /\ cron.pc # "running"
    /\ \E d \in Devices :
          /\ info' = d
          /\ DownloadBody(logs[d], Tables)
    /\ UNCHANGED <<logs, cron, runs, context, overtime>>

\* cron_download, line 159: machines = search([])
CronStart ==
    /\ cron.pc # "running"
    /\ pc = "idle"
    /\ cron' = [pc |-> "running", k |-> 1, invoked |-> {}, start |-> Tables]
    /\ UNCHANGED <<tz, user, attendance, hr_employee, hr_attendance,
                   zk_attendance, pc, i, conn, enabled, result, synced, saved,
                   info, logs, runs, context, overtime>>

\* cron_download, lines 160-161: machine.action_download_attendance() for the
\* next machine; a UserError of the download leaves the loop and the job
CronDownload ==
    /\ cron.pc = "running"
    /\ cron.k <= MaxDevices
    /\ info' = cron.k
    /\ DownloadBody(logs[cron.k], cron.start)
    /\ cron' = [cron EXCEPT !.invoked = @ \cup {cron.k},
                            !.pc = IF pc' = "idle" THEN "raised" ELSE "running"]
    /\ UNCHANGED <<logs, runs, context, overtime>>

\* one iteration of the loop of the device's download; an exception leaves
\* the job too when the job called
PunchAt ==
    /\ PunchBody(info)
    /\ cron' = IF cron.pc = "running" /\ pc' = "idle"
               THEN [cron EXCEPT !.pc = "raised"] ELSE cron
    /\ UNCHANGED <<info, logs, runs, context, overtime>>

\* the download returns True; the job goes on to the next machine
ReturnAt ==
    /\ ReturnBody
    /\ cron' = IF cron.pc = "running" THEN [cron EXCEPT !.k = @ + 1] ELSE cron
    /\ UNCHANGED <<info, logs, runs, context, overtime>>

\* cron_download returns after the last machine
CronEnd ==
    /\ cron.pc = "running"
    /\ cron.k > MaxDevices
    /\ pc = "idle"
    /\ cron' = [cron EXCEPT !.pc = "done"]
    /\ UNCHANGED <<tz, user, attendance, hr_employee, hr_attendance,
                   zk_attendance, pc, i, conn, enabled, result, synced, saved,
                   info, logs, runs, context, overtime>>

NextDevices ==
    \/ DevicePunchAt
    \/ ButtonDownload
    \/ CronStart
    \/ CronDownload
    \/ PunchAt
    \/ ReturnAt
    \/ CronEnd

SpecDevices == InitDevices /\ [][NextDevices]_vars

\* a raw punch record with the punch's user id and canonical timestamp that
\* came from the device of this run exists
LoggedFromDevice(p) ==
    \E n \in 1..Len(zk_attendance) :
        /\ zk_attendance[n].device_id_num = p.user_id
        /\ zk_attendance[n].punching_time = ToUtc(p.timestamp, tz)
        /\ zk_attendance[n].address_id = info

\* C15: the duplicate filter keys on the source device: a punch of an enrolled
\* user for which no raw record with the same user id, the same canonical
\* timestamp and the same device exists is not a duplicate; it is logged (and
\* reconciled) as a punch of this device, even when another device has logged
\* the same user id and timestamp.
C15_DuplicateKeyedOnDevice ==
    [][(InLoop /\ Accepted(attendance[i]) /\ ~LoggedFromDevice(attendance[i])
          /\ pc' = "loop") =>
          /\ Len(zk_attendance') = Len(zk_attendance) + 1
          /\ zk_attendance'[Len(zk_attendance')].address_id = info
          /\ zk_attendance'[Len(zk_attendance')].punching_time
                 = ToUtc(attendance[i].timestamp, tz)]_vars

\* C19: an invocation of cron_download invokes the download for every
\* configured device, also for those after a device whose download fails
\* (unreachable device or empty punch log): when the job has ended, by
\* returning or by such a failure, every device has been invoked.
C19_CronReachesEveryDevice ==
    (cron.pc = "done"
       \/ (cron.pc = "raised" /\ result \in {"NoConnection", "NoAttendance"}))
        => cron.invoked = Devices

\* ------------------------------------------------- two runs at the same time
\* The scheduled job and the download button (or two workers) run
\* action_download_attendance over the same device list at once. Each run is
\* at a punch of the list and alternates between the employee search (lines
\* 207-209) and the rest of the iteration (lines 210-371), which acts on the
\* recordset the search returned. A statement of one run is seen by the other
\* at once; creates and writes succeed, and what a run that raises had
\* written stays (both weaken nothing here: they only remove interleavings).
MaxRuns == 2
MaxConcPunches == 2

Runs == 1..MaxRuns

ConcPunches ==
    [user_id : Users, timestamp : {0, TimeStep}, punch : {0, 1}, status : {1}]

InitConc ==
    /\ tz = "GMT"
    /\ user = Users
    /\ \E n \in 1..MaxConcPunches : attendance \in [1..n -> ConcPunches]
    /\ hr_employee = {}
    /\ hr_attendance = <<>>
    /\ zk_attendance = <<>>
    /\ pc = "idle"
    /\ i = 1
    /\ conn = "none"
    /\ enabled = TRUE
    /\ result = "none"
    /\ synced = FALSE
    /\ saved = NoTables
    /\ info = address_id
    /\ logs = <<>>
    /\ cron = [pc |-> "idle", k |-> 1, invoked |-> {}, start |-> NoTables]
    /\ runs = [r \in Runs |-> [pc |-> "idle", i |-> 1, get_user_id |-> {}]]
    /\ context = FALSE
    /\ overtime = [n |-> 0, at_start |-> 0]

\* what a step of one of the concurrent runs leaves alone
ConcFrame ==
    UNCHANGED <<tz, user, attendance, pc, i, conn, enabled, result, synced,
                saved, info, logs, cron, context, overtime>>

\* lines 188-194: the run connects and fetches the list
ConcStart(r) ==
    /\ runs[r].pc = "idle"
    /\ runs' = [runs EXCEPT ![r].pc = "search"]
    /\ UNCHANGED <<hr_employee, hr_attendance, zk_attendance>>
    /\ ConcFrame

\* lines 196-209: get_user_id = self.env["hr.employee"].search(...)
ConcSearch(r) ==
    /\ runs[r].pc = "search"
    /\ runs[r].i <= Len(attendance)
    /\ runs' = [runs EXCEPT
                   ![r].pc = "write",
                   ![r].get_user_id =
                       SearchEmployee(hr_employee, attendance[runs[r].i].user_id)]
    /\ UNCHANGED <<hr_employee, hr_attendance, zk_attendance>>
    /\ ConcFrame

\* lines 210-371 with the recordset found before: for an employee found the
\* duplicate search and the branch of the last interval, else the creation
\* of a new employee, whose id is the next of the table as it is now
ConcWrite(r) ==
    /\ runs[r].pc = "write"
    /\ LET each  == attendance[runs[r].i]
           t     == ToUtc(each.timestamp, tz)
           found == runs[r].get_user_id
       IN
       IF SingletonRaises(found, zk_attendance, each, t)
       THEN /\ runs' = [runs EXCEPT ![r].pc = "raised"]
            /\ UNCHANGED <<hr_employee, hr_attendance, zk_attendance>>
       ELSE \E last \in LastChoices(found, hr_attendance, each) :
              LET ops == IF found = {}
                         THEN NewEmployeeBranch(hr_employee, each, t, info)
                         ELSE PunchOps(found, hr_attendance, zk_attendance,
                                       each, t, last, info)
                  db  == Exec(Tables, ops, Len(ops))
              IN /\ hr_employee' = db.E
                 /\ hr_attendance' = db.A
                 /\ zk_attendance' = db.Z
                 /\ runs' = [runs EXCEPT ![r].pc = "search", ![r].i = @ + 1]
    /\ ConcFrame

\* lines 372-373: the run returns True
ConcReturn(r) ==
    /\ runs[r].pc = "search"
    /\ runs[r].i > Len(attendance)
    /\ runs' = [runs EXCEPT ![r].pc = "done"]
    /\ UNCHANGED <<hr_employee, hr_attendance, zk_attendance>>
    /\ ConcFrame

NextConc ==
    \E r \in Runs :
        \/ ConcStart(r)
        \/ ConcSearch(r)
        \/ ConcWrite(r)
        \/ ConcReturn(r)

SpecConc == InitConc /\ [][NextConc]_vars

\* C17: when two runs execute concurrently and both look up the same unseen
\* device user id, under every interleaving of their lookup and create steps
\* at most one employee with that device id exists afterwards.
C17_ConcurrentOneEmployee ==
    \A uid \in Users :
        Cardinality({e \in hr_employee : e.device_id_num = uid}) <= 1

\* ------------------------------------------------ hr.attendance.overtime
\* Odoo's hr.attendance may call create on hr.attendance.overtime whenever an
\* interval is created or written; the call runs in the environment of the
\* download, whose context is the caller's (action_download_attendance never
\* changes it: lines 166-167 take self.env as it is).
MaxOvertime == 2
MaxOvertimePunches == 2

OvertimePunches ==
    [user_id : {1}, timestamp : {0, TimeStep}, punch : {0, 1}, status : {1}]

\* HrAttendanceOvertime.create: the number of overtime records after one call
\* with no_overtime_creation = ctx in the context (n before the call)
OvertimeCreate(ctx, n) == IF ctx THEN n ELSE n + 1

\* k calls in a row
RECURSIVE OvertimeCreates(_, _, _)
OvertimeCreates(ctx, n, k) ==
    IF k = 0 THEN n ELSE OvertimeCreate(ctx, OvertimeCreates(ctx, n, k - 1))

InitOvertime ==
    /\ tz = "GMT"
    /\ user = {1}
    /\ attendance = <<>>
    /\ hr_employee = {}
    /\ hr_attendance = <<>>
    /\ zk_attendance = <<>>
    /\ pc = "idle"
    /\ i = 1
    /\ conn = "none"
    /\ enabled = TRUE
    /\ result = "none"
    /\ synced = FALSE
    /\ saved = NoTables
    /\ info = address_id
    /\ logs = <<>>
    /\ cron = [pc |-> "idle", k |-> 1, invoked |-> {}, start |-> NoTables]
    /\ runs = <<>>
    /\ context = FALSE
    /\ overtime = [n |-> 0, at_start |-> 0]

DevicePunchOvertime ==
    /\ pc = "idle"
    /\ Len(attendance) < MaxOvertimePunches
    /\ \E p \in OvertimePunches : attendance' = Append(attendance, p)
    /\ synced' = FALSE
    /\ UNCHANGED <<tz, user, hr_employee, hr_attendance, zk_attendance,
                   pc, i, conn, enabled, result, saved, aux>>

\* the download called in an environment with or without the context key
DownloadOvertime ==
    /\ DownloadBody(attendance, Tables)
    /\ context' \in BOOLEAN
    /\ overtime' = [overtime EXCEPT !.at_start = overtime.n]
    /\ UNCHANGED <<info, logs, cron, runs>>

\* the intervals created or written by this step
IntervalWrites ==
    (Len(hr_attendance') - Len(hr_attendance))
      + Cardinality({k \in 1..Len(hr_attendance) :
                        hr_attendance'[k] # hr_attendance[k]})

\* one iteration of the loop, with the overtime create calls its interval
\* creates and writes bring about; an exception rolls the overtime table
\* back with the others
PunchOvertime ==
    /\ PunchBody(info)
    /\ IF pc' = "idle"
       THEN overtime' = [overtime EXCEPT !.n = overtime.at_start]
       ELSE \E calls \in 0..IntervalWrites :
              overtime' =
                  [overtime EXCEPT !.n = OvertimeCreates(context, @, calls)]
    /\ UNCHANGED <<info, logs, cron, runs, context>>

\* a create call outside the import, in an environment without the key
CreateOutside ==
    /\ pc = "idle"
    /\ overtime.n < MaxOvertime
    /\ context' = FALSE
    /\ overtime' = [overtime EXCEPT !.n = OvertimeCreate(FALSE, @)]
    /\ UNCHANGED <<tz, user, attendance, hr_employee, hr_attendance,
                   zk_attendance, pc, i, conn, enabled, result, synced, saved,
                   info, logs, cron, runs>>

NextOvertime ==
    \/ DevicePunchOvertime
    \/ DownloadOvertime
    \/ PunchOvertime
    \/ Return
    \/ CreateOutside

SpecOvertime == InitOvertime /\ [][NextOvertime]_vars

\* C20: every create call on hr.attendance.overtime that happens while
\* action_download_attendance creates or closes intervals is skipped, so an
\* iteration of the import loop creates no overtime record; outside the
\* import a create call creates one.
C20_NoOvertimeDuringImport ==
    [][/\ (InLoop /\ pc' = "loop") => overtime'.n = overtime.n
       /\ (pc = "idle" /\ pc' = "idle" /\ overtime'.n # overtime.n) =>
              overtime'.n = overtime.n + 1]_vars

\* ------------------------------------------------- punches delivered in order
\* punch k of the device log repeats an earlier punch of the same user and
\* time: it is a duplicate when the loop comes to it
Repeats(k) ==
    \E m \in 1..(k - 1) :
        /\ attendance[m].user_id = attendance[k].user_id
        /\ attendance[m].timestamp = attendance[k].timestamp

\* every user's punches that are not repeats come in strictly ascending
\* canonical time, and every punch code is 0 or 1
DeliveredInOrder ==
    /\ \A k \in 1..Len(attendance) : attendance[k].punch \in {0, 1}
    /\ \A j, k \in 1..Len(attendance) :
           (j < k /\ attendance[j].user_id = attendance[k].user_id /\ ~Repeats(k))
               => ToUtc(attendance[j].timestamp, tz) < ToUtc(attendance[k].timestamp, tz)

\* C21: if every employee's non-duplicate punches are delivered in strictly
\* ascending timestamp order across all runs and all codes are 0 or 1, then
\* after every processed punch the employee has at most one open interval,
\* every closed interval has check_out >= check_in, the intervals do not
\* overlap, and the interval with the latest check_in is the employee's only
\* open interval whenever one exists.
C21_OrderedPunchesKeepLedger ==
    DeliveredInOrder =>
        \A e \in hr_employee :
            /\ Cardinality(OpenIntervalsOf(e.id)) <= 1
            /\ \A k \in IntervalsOf(e.id) :
                   /\ hr_attendance[k].check_out # Null =>
                          hr_attendance[k].check_out >= hr_attendance[k].check_in
                   /\ \A j \in IntervalsOf(e.id) :
                          j # k => ~Overlap(hr_attendance[j], hr_attendance[k])
            /\ OpenIntervalsOf(e.id) # {} =>
                   SearchLast(hr_attendance, e.id) = OpenIntervalsOf(e.id)

\* a run has gone through an ordered log of four distinct punches and left
\* closed intervals and an open one
C21_Witness ==
    /\ DeliveredInOrder
    /\ pc = "loop"
    /\ i > Len(attendance)
    /\ Len(attendance) = 4
    /\ \A k \in 1..Len(attendance) : ~Repeats(k)
    /\ Len(zk_attendance) = 4
    /\ \E e \in hr_employee :
           /\ OpenIntervalsOf(e.id) # {}
           /\ Cardinality(IntervalsOf(e.id)) >= 3

\* ------------------------------------------------- action_clear_attendance
\* The devices with their own logs and the download button, as before, and
\* the clear button of a device's form. Cleared punches can be made and
\* downloaded again, so the clear button is taken only while the ledger is
\* small.
MaxClearIntervals == 2
MaxClearPunches == 1

\* somebody punches at one of the terminals (short logs here)
DevicePunchClear ==
    /\ pc = "idle"
    /\ \E d \in Devices, p \in DeviceLogPunches :
          /\ Len(logs[d]) < MaxClearPunches
          /\ logs' = [logs EXCEPT ![d] = Append(@, p)]
    /\ synced' = FALSE
    /\ UNCHANGED <<tz, user, attendance, hr_employee, hr_attendance,
                   zk_attendance, pc, i, conn, enabled, result, saved,
                   info, cron, runs, context, overtime>>

\* action_clear_attendance (lines 111-155) on device d: connect, enable the
\* device, and if its log is not empty clear it and delete from
\* zk_machine_attendance (line 138, no WHERE clause); every failure becomes a
\* ValidationError, and one of the delete rolls the table back but not the
\* device.
ClearAttendance ==
    /\ pc = "idle"
    /\ Len(hr_attendance) <= MaxClearIntervals
    /\ \E d \in Devices, connected \in BOOLEAN, deleted \in BOOLEAN :
          /\ info' = d
          /\ IF ~connected
             THEN /\ conn' = "none"
                  /\ result' = "ClearError"
                  /\ UNCHANGED <<enabled, logs, zk_attendance>>
             ELSE IF logs[d] = <<>>
             THEN /\ conn' = "open"
                  /\ enabled' = TRUE
                  /\ result' = "ClearError"
                  /\ UNCHANGED <<logs, zk_attendance>>
             ELSE /\ enabled' = TRUE
                  /\ logs' = [logs EXCEPT ![d] = <<>>]
                  /\ IF deleted
                     THEN /\ zk_attendance' = <<>>
                          /\ conn' = "closed"
                          /\ result' = "Cleared"
                     ELSE /\ zk_attendance' = zk_attendance
                          /\ conn' = "open"
                          /\ result' = "ClearError"
    /\ synced' = FALSE
    /\ UNCHANGED <<tz, user, attendance, hr_employee, hr_attendance, pc, i,
                   saved, cron, runs, context, overtime>>

NextClear ==
    \/ DevicePunchClear
    \/ ButtonDownload
    \/ PunchAt
    \/ ReturnAt
    \/ ClearAttendance

SpecClear == InitDevices /\ [][NextClear]_vars

\* the raw punch records that did not come from device d, in table order
RawOfOthers(Z, d) == SelectSeq(Z, LAMBDA r : r.address_id # d)

\* C22: action_clear_attendance on device A removes only the raw punch
\* records sourced from A: when the clear button has emptied a device's log,
\* the raw records downloaded from every other device are as they were (so a
\* later download of an unchanged device B finds all its punches logged).
C22_ClearKeepsOtherDevices ==
    [][(pc = "idle" /\ logs[info'] # <<>> /\ logs'[info'] = <<>>) =>
          RawOfOthers(zk_attendance', info') = RawOfOthers(zk_attendance, info')]_vars

====
